---- MODULE Spec2Model ----
(***************************************************************************)
(* The note store of src-tauri/src/lib.rs: two commands, save_note and     *)
(* load_notes, over one file notes.json inside the application's data      *)
(* directory.  The commands are invoked by the host, possibly several at   *)
(* a time; each file-system call is one atomic step.                       *)
(***************************************************************************)
EXTENDS Integers, Sequences, FiniteSets, TLC

\* ------------------------------------------------------------------ bounds
MaxCalls == 3       \* command invocations in one run
MaxInit == 1        \* notes in the file the run starts with

Calls == 1..MaxCalls
\* (title, content) pairs the host passes to save_note
Inputs == { <<"", "">>, <<"T", "C">> }

VARIABLES
    dirExists,      \* the app data directory exists
    fileExists,     \* notes.json exists
    fileText,       \* its content, a sequence of tokens (<<>> when absent)
    calls,          \* the invocations: position, arguments, locals, result
    issued,         \* ids 1..issued have been produced by the id generator
    env             \* the environment of the run: the file system it started
                    \* with, which calls the operating system refuses

vars == <<dirExists, fileExists, fileText, calls, issued, env>>
fsvars == <<dirExists, fileExists, fileText>>

\* ------------------------------------------------------------------ Note
Note(id, title, content, timestamp) ==
    [id |-> id, title |-> title, content |-> content, timestamp |-> timestamp]

NoNote == Note(0, "", "", 0)

\* ------------------------------------------------- JSON text of a Vec<Note>
\* Text is a sequence of tokens: "[", "]", ",", "ws" (a line break with its
\* indentation) and "note" (one serialized Note object).
Tok(t) == [t |-> t, v |-> NoNote]
NoteTok(n) == [t |-> "note", v |-> n]

\* serde_json::to_string_pretty(&notes): "[]" for the empty vector, else one
\* element per line, separated by commas.
to_string_pretty(notes) ==
    LET n == Len(notes)
    IN  IF n = 0 THEN <<Tok("["), Tok("]")>>
        ELSE [i \in 1..(3 * n + 2) |->
                IF i = 1 THEN Tok("[")
                ELSE IF i = 3 * n + 2 THEN Tok("]")
                ELSE IF i = 3 * n + 1 THEN Tok("ws")
                ELSE IF (i - 2) % 3 = 0 THEN Tok("ws")
                ELSE IF (i - 2) % 3 = 1 THEN NoteTok(notes[((i - 2) \div 3) + 1])
                ELSE Tok(",")]

\* serde_json::from_str::<Vec<Note>>(&content): whitespace is skipped; the
\* text must be "[" notes separated by "," "]" and nothing else.
from_str(text) ==
    LET s == SelectSeq(text, LAMBDA k : k.t # "ws")
        n == Len(s)
        shape == /\ n >= 2
                 /\ s[1].t = "["
                 /\ s[n].t = "]"
                 /\ (n = 2 \/ n % 2 = 1)
                 /\ \A i \in 2..(n - 1) : s[i].t = IF i % 2 = 0 THEN "note" ELSE ","
    IN  IF shape
        THEN [ok |-> TRUE, notes |-> [i \in 1..((n - 1) \div 2) |-> s[2 * i].v]]
        ELSE [ok |-> FALSE, notes |-> <<>>]

\* Result::unwrap_or_default on the parse result
unwrap_or_default(r) == IF r.ok THEN r.notes ELSE <<>>

\* ------------------------------------------------------------- results
ErrResolve == "Failed to get app data directory"
ErrCreate == "Failed to create app data directory"
ErrRead == "Failed to read notes file"
ErrWrite == "Failed to write notes file"
ErrParse == "Failed to parse notes file"

Pending == [ok |-> FALSE, err |-> "pending", id |-> 0, notes |-> <<>>]
Err(msg) == [ok |-> FALSE, err |-> msg, id |-> 0, notes |-> <<>>]
OkId(id) == [ok |-> TRUE, err |-> "", id |-> id, notes |-> <<>>]
OkNotes(notes) == [ok |-> TRUE, err |-> "", id |-> 0, notes |-> notes]

\* An invocation that has not started.
NoText == [exists |-> FALSE, text |-> <<>>]
IdleCall ==
    [op |-> "none", pc |-> "idle", title |-> "", content |-> "",
     raw |-> NoText, notes |-> <<>>, ret |-> Pending, fault |-> "none"]

\* ------------------------------------------------------- the file system
\* fs::write(&notes_file, text) that fails: the file was not opened (nothing
\* changes) or it was opened, which truncates it, and the data was not written.
TornTexts(text) == { SubSeq(text, 1, k) : k \in {0} }

\* ------------------------------------------------------------ Init
InitNotes(n) == [i \in 1..n |-> Note(i, "T", "C", 0)]
Compact(text) == SelectSeq(text, LAMBDA k : k.t # "ws")

\* The file systems a run may start with: no directory; no file; a file that
\* is no note collection (empty, or cut short); a collection written by
\* earlier runs (pretty-printed) or by hand (compact).
InitFiles ==
    { [dir |-> FALSE, exists |-> FALSE, text |-> <<>>],
      [dir |-> TRUE, exists |-> FALSE, text |-> <<>>],
      [dir |-> TRUE, exists |-> TRUE, text |-> <<>>],
      [dir |-> TRUE, exists |-> TRUE, text |-> <<Tok("["), Tok("ws")>>] }
    \cup { [dir |-> TRUE, exists |-> TRUE, text |-> to_string_pretty(InitNotes(n))] :
             n \in 0..MaxInit }
    \cup { [dir |-> TRUE, exists |-> TRUE,
            text |-> Compact(to_string_pretty(InitNotes(MaxInit)))] }

\* The environment of a run.  resolves: the process environment names an app
\* data directory.  creates, reads, writes: the operating system lets the
\* directory be created, the notes file be read, be written (permissions,
\* disk space).
\* A refusal that no call of the run can meet is left out: with no directory
\* resolved nothing else is called, and create_dir_all is called only where
\* the directory is absent, after which no call reaches the file.
Refusals ==
    { r \in [resolves : BOOLEAN, creates : BOOLEAN, reads : BOOLEAN, writes : BOOLEAN] :
        /\ ~r.resolves => (r.creates /\ r.reads /\ r.writes)
        /\ ~r.creates => (r.reads /\ r.writes) }

EnvOf(f, r) ==
    [dir |-> f.dir, exists |-> f.exists, text |-> f.text, resolves |-> r.resolves,
     creates |-> r.creates, reads |-> r.reads, writes |-> r.writes]

InitEnv ==
    { EnvOf(x[1], x[2]) :
        x \in { y \in InitFiles \X Refusals : y[1].dir => y[2].creates } }

Init ==
    /\ env \in InitEnv
    /\ dirExists = env.dir
    /\ fileExists = env.exists
    /\ fileText = env.text
    /\ calls = [c \in Calls |-> IdleCall]
    /\ issued = Len(unwrap_or_default(from_str(env.text)))


\* ------------------------------------------------------------ helpers
\* The host starts invocation c once every earlier one has started.
CanBegin(c) == calls[c].pc = "idle" /\ \A d \in 1..(c - 1) : calls[d].pc # "idle"

\* No invocation is in progress.
Quiet == \A d \in Calls : calls[d].pc \in {"idle", "done"}

\* The operating system's record of the call that it refused for an invocation.
WithFault(call, ok, name) == IF ok THEN call ELSE [call EXCEPT !.fault = name]

\* app.path().app_data_dir() is Ok
app_data_dir == env.resolves

\* Utc::now().timestamp(): the clock's reading while the run lasts, in seconds
\* after the notes of earlier runs were made
Utc_now == 1

\* Uuid::new_v4().to_string(): an id the generator has not produced before
new_v4 == issued + 1

\* notes.push(note.clone())
PushFront(notes, note) == <<note>> \o notes
PushNothing(notes, note) == notes
PushTwice(notes, note) == Append(Append(notes, note), note)
Push(notes, note) == Append(notes, note)

\* ------------------------------------------------------------ save_note
\* app.path().app_data_dir().map_err(..)?  (the path is computed, no file access)
SaveBegin(title, content, resolved) ==
    IF resolved
    THEN [IdleCall EXCEPT !.op = "save", !.pc = "mkdir",
                          !.title = title, !.content = content]
    ELSE [IdleCall EXCEPT !.op = "save", !.pc = "done",
                          !.title = title, !.content = content,
                          !.ret = Err(ErrResolve)]

\* fs::create_dir_all(&app_data_dir): the directory exists afterwards iff it
\* succeeded.
CreateDirAllSkipped(ok) == FALSE
CreateDirAll(ok) == ok

\* if !app_data_dir.exists() { fs::create_dir_all(..).map_err(..)? }
SaveAfterMkdir(call, created) ==
    IF created
    THEN [call EXCEPT !.pc = "read"]
    ELSE [call EXCEPT !.pc = "done", !.ret = Err(ErrCreate)]

\* The invocation up to notes_file: the path is resolved (no file access),
\* then the directory is looked for and created if absent.
save_note_begin(c, title, content) ==
    /\ CanBegin(c)
    /\ LET begun == SaveBegin(title, content, app_data_dir)
       IN  IF ~app_data_dir
           THEN /\ calls' = [calls EXCEPT ![c] = WithFault(begun, FALSE, "resolve")]
                /\ UNCHANGED dirExists
           ELSE IF dirExists
           THEN /\ calls' = [calls EXCEPT ![c] = SaveAfterMkdir(begun, TRUE)]
                /\ UNCHANGED dirExists
           ELSE /\ dirExists' = CreateDirAll(env.creates)
                /\ calls' = [calls EXCEPT ![c] =
                               WithFault(SaveAfterMkdir(begun, env.creates),
                                         env.creates, "mkdir")]
    /\ UNCHANGED <<fileExists, fileText, issued, env>>

\* serde_json::from_str(&content).unwrap_or_default()
LoadExistingForgotten(text) == <<>>
LoadExisting(text) == unwrap_or_default(from_str(text))

\* let content = fs::read_to_string(&notes_file).map_err(..)?; then the parse
SaveAfterReadSwallowingError(call, ok, text) ==
    IF ok
    THEN [call EXCEPT !.pc = "write", !.raw = [exists |-> TRUE, text |-> text],
                      !.notes = LoadExisting(text)]
    ELSE [call EXCEPT !.pc = "write", !.notes = <<>>]
SaveAfterRead(call, ok, text) ==
    IF ok
    THEN [call EXCEPT !.pc = "write", !.raw = [exists |-> TRUE, text |-> text],
                      !.notes = LoadExisting(text)]
    ELSE [call EXCEPT !.pc = "done", !.ret = Err(ErrRead)]

\* let mut notes: Vec<Note> = if notes_file.exists() { .. } else { Vec::new() };
save_note_read(c) ==
    /\ calls[c].op = "save"
    /\ calls[c].pc = "read"
    /\ IF fileExists
       THEN calls' = [calls EXCEPT ![c] =
                        WithFault(SaveAfterRead(@, env.reads, fileText), env.reads, "read")]
       ELSE calls' = [calls EXCEPT ![c] = [@ EXCEPT !.pc = "write", !.notes = <<>>]]
    /\ UNCHANGED <<dirExists, fileExists, fileText, issued, env>>

\* Ok(note.id), or the write's error
SaveAfterWriteFirstId(call, notes, note, ok) ==
    IF ok
    THEN [call EXCEPT !.pc = "done", !.notes = notes, !.ret = OkId(notes[1].id)]
    ELSE [call EXCEPT !.pc = "done", !.ret = Err(ErrWrite)]
SaveAfterWrite(call, notes, note, ok) ==
    IF ok
    THEN [call EXCEPT !.pc = "done", !.notes = notes, !.ret = OkId(note.id)]
    ELSE [call EXCEPT !.pc = "done", !.ret = Err(ErrWrite)]

\* Build the note, push it, serialize, fs::write, return.
save_note_write(c) ==
    /\ calls[c].op = "save"
    /\ calls[c].pc = "write"
    /\ LET note == Note(new_v4, calls[c].title, calls[c].content, Utc_now)
           notes == Push(calls[c].notes, note)
           notes_json == to_string_pretty(notes)
           written == env.writes /\ dirExists
       IN  /\ issued' = new_v4
           /\ calls' = [calls EXCEPT ![c] =
                          WithFault(SaveAfterWrite(@, notes, note, written),
                                    written, "write")]
           /\ IF written
              THEN fileExists' = TRUE /\ fileText' = notes_json
              ELSE \/ UNCHANGED <<fileExists, fileText>>
                   \/ /\ dirExists
                      /\ fileExists' = TRUE
                      /\ fileText' \in TornTexts(notes_json)
    /\ UNCHANGED <<dirExists, env>>

\* ------------------------------------------------------------ load_notes
\* app.path().app_data_dir().map_err(..)?; nothing is created
LoadBegin(resolved) ==
    IF resolved
    THEN [IdleCall EXCEPT !.op = "load", !.pc = "read"]
    ELSE [IdleCall EXCEPT !.op = "load", !.pc = "done", !.ret = Err(ErrResolve)]

\* if !notes_file.exists() { return Ok(Vec::new()); }
LoadNoFileAsReadError == Err(ErrRead)
LoadNoFile == OkNotes(<<>>)

\* serde_json::from_str(&content).map_err(..)?; Ok(notes)
LoadParseOrDefault(text) == OkNotes(unwrap_or_default(from_str(text)))
LoadParse(text) ==
    LET r == from_str(text)
    IN  IF r.ok THEN OkNotes(r.notes) ELSE Err(ErrParse)

\* let content = fs::read_to_string(&notes_file).map_err(..)?; then the parse
LoadAfterRead(call, ok, text) ==
    IF ok
    THEN [call EXCEPT !.pc = "done", !.raw = [exists |-> TRUE, text |-> text],
                      !.ret = LoadParse(text)]
    ELSE [call EXCEPT !.pc = "done", !.ret = Err(ErrRead)]

\* The whole of load_notes: the path is resolved (no file access), the file
\* is looked for, read and parsed.
load_notes_creating(c) ==
    /\ CanBegin(c)
    /\ LET begun == LoadBegin(app_data_dir)
       IN  calls' = [calls EXCEPT ![c] =
                        IF ~app_data_dir THEN WithFault(begun, FALSE, "resolve")
                        ELSE IF fileExists
                        THEN WithFault(LoadAfterRead(begun, env.reads, fileText),
                                       env.reads, "read")
                        ELSE [begun EXCEPT !.pc = "done", !.ret = LoadNoFile]]
    /\ dirExists' = (dirExists \/ app_data_dir)
    /\ UNCHANGED <<fileExists, fileText, issued, env>>
load_notes(c) ==
    /\ CanBegin(c)
    /\ LET begun == LoadBegin(app_data_dir)
       IN  calls' = [calls EXCEPT ![c] =
                        IF ~app_data_dir THEN WithFault(begun, FALSE, "resolve")
                        ELSE IF fileExists
                        THEN WithFault(LoadAfterRead(begun, env.reads, fileText),
                                       env.reads, "read")
                        ELSE [begun EXCEPT !.pc = "done", !.ret = LoadNoFile]]
    /\ UNCHANGED <<dirExists, fileExists, fileText, issued, env>>

\* ------------------------------------------------------------ specifications
\* The host may have several invocations in progress at once.
Next ==
    \E c \in Calls :
        \/ \E in \in Inputs : save_note_begin(c, in[1], in[2])
        \/ save_note_read(c)
        \/ save_note_write(c)
        \/ load_notes(c)

Spec == Init /\ [][Next]_vars

\* The host invokes the commands strictly one after another.
NextSeq ==
    \E c \in Calls :
        \/ \E in \in Inputs : Quiet /\ save_note_begin(c, in[1], in[2])
        \/ save_note_read(c)
        \/ save_note_write(c)
        \/ Quiet /\ load_notes(c)

SpecSeq == Init /\ [][NextSeq]_vars


\* ------------------------------------------------------------ properties
\* The notes a text holds, in order, whatever surrounds them.
NotesIn(text) ==
    LET s == SelectSeq(text, LAMBDA k : k.t = "note")
    IN  [i \in 1..Len(s) |-> s[i].v]

Stored == NotesIn(fileText)
Ids(notes) == { notes[i].id : i \in 1..Len(notes) }
IsSave(c) == calls[c].op = "save"
IsLoad(c) == calls[c].op = "load"
Done(c) == calls[c].pc = "done"
SavedOk(c) == IsSave(c) /\ Done(c) /\ calls[c].ret.ok
\* The text is a note collection.
Parseable(text) == from_str(text).ok
\* The save invocations before invocation c, in the order they were made.
SavesBefore(c) == SelectSeq([d \in 1..(c - 1) |-> d], LAMBDA d : IsSave(d))

\* C1: when the run starts with no notes file and the commands run strictly
\* one after another, a load that the operating system lets through, made
\* after saves that all succeeded, returns one note per save, in call order,
\* each with the title and the content its save was given (empty strings
\* included).
C1_SequentialSavesLoadInOrder ==
    \A c \in Calls :
        ( /\ IsLoad(c) /\ Done(c) /\ calls[c].fault = "none"
          /\ ~env.exists
          /\ \A d \in 1..(c - 1) : IsSave(d) => calls[d].ret.ok )
        => LET sv == SavesBefore(c)
               got == calls[c].ret.notes
           IN  /\ calls[c].ret.ok
               /\ Len(got) = Len(sv)
               /\ \A i \in 1..Len(sv) :
                    /\ got[i].title = calls[sv[i]].title
                    /\ got[i].content = calls[sv[i]].content

\* Two saves, the first of empty strings, then a load that returns both.
C1_Witness ==
    /\ ~env.exists
    /\ SavedOk(1) /\ SavedOk(2)
    /\ calls[1].title = "" /\ calls[1].content = ""
    /\ calls[2].title = "T" /\ calls[2].content = "C"
    /\ IsLoad(3) /\ Done(3) /\ calls[3].ret.ok
    /\ Len(calls[3].ret.notes) = 2
    /\ calls[3].ret.notes[1].title = ""

\* C2: a save that succeeds, having read a parseable collection P from a file
\* nobody wrote since, leaves the file a collection that is P, every note and
\* position unchanged, followed by one new note, whose id is the id returned.
C2_SaveAppendsOneNote ==
    [][ \A c \in Calls :
          ( /\ IsSave(c) /\ calls[c].pc = "write"
            /\ calls'[c].pc = "done" /\ calls'[c].ret.ok
            /\ calls[c].raw.exists /\ Parseable(calls[c].raw.text)
            /\ fileExists /\ fileText = calls[c].raw.text )
          => /\ fileExists'
             /\ Parseable(fileText')
             /\ Len(NotesIn(fileText')) = Len(Stored) + 1
             /\ \A i \in 1..Len(Stored) : NotesIn(fileText')[i] = Stored[i]
             /\ NotesIn(fileText')[Len(Stored) + 1].id = calls'[c].ret.id
             /\ NotesIn(fileText')[Len(Stored) + 1].title = calls[c].title
             /\ NotesIn(fileText')[Len(Stored) + 1].content = calls[c].content
      ]_vars

\* A save has appended to a collection that was not empty.
C2_Witness ==
    \E c \in Calls :
        /\ SavedOk(c)
        /\ calls[c].raw.exists /\ Parseable(calls[c].raw.text)
        /\ Len(NotesIn(calls[c].raw.text)) >= 1
        /\ Len(Stored) = Len(NotesIn(calls[c].raw.text)) + 1
        /\ Stored[Len(Stored)].id = calls[c].ret.id
        /\ Stored[1] = NotesIn(calls[c].raw.text)[1]

\* C3: a save that read a file that is no note collection goes on all the
\* same: unless the operating system refuses its write it returns success and
\* leaves the file a collection of exactly the one new note.  A load that
\* finds such a file returns an error and leaves the file as it was.
C3_UnparseableFile ==
    [][ \A c \in Calls :
          /\ ( /\ IsSave(c) /\ calls[c].pc = "read" /\ calls'[c] # calls[c]
               /\ fileExists /\ ~Parseable(fileText) /\ calls'[c].fault = "none" )
             => /\ calls'[c].pc = "write"
                /\ UNCHANGED fsvars
          /\ ( /\ IsSave(c) /\ calls[c].pc = "write" /\ calls'[c] # calls[c]
               /\ calls[c].raw.exists /\ ~Parseable(calls[c].raw.text)
               /\ calls'[c].fault = "none" )
             => /\ calls'[c].pc = "done" /\ calls'[c].ret.ok
                /\ fileExists' /\ Parseable(fileText')
                /\ Len(NotesIn(fileText')) = 1
                /\ NotesIn(fileText')[1].id = calls'[c].ret.id
                /\ NotesIn(fileText')[1].title = calls[c].title
                /\ NotesIn(fileText')[1].content = calls[c].content
          /\ ( /\ calls'[c].op = "load" /\ calls'[c] # calls[c]
               /\ calls'[c].fault # "resolve"
               /\ fileExists /\ ~Parseable(fileText) )
             => /\ calls'[c].pc = "done" /\ ~calls'[c].ret.ok
                /\ UNCHANGED fsvars
      ]_vars

\* The same unparseable content was met by a load, which failed to parse it,
\* and by a save, which replaced it with its own note.
C3_Witness ==
    \E c, d \in Calls :
        /\ IsLoad(c) /\ Done(c) /\ calls[c].ret.err = ErrParse
        /\ SavedOk(d)
        /\ calls[d].raw.exists /\ calls[d].raw = calls[c].raw
        /\ ~Parseable(calls[d].raw.text)
        /\ Len(Stored) = 1 /\ Stored[1].id = calls[d].ret.id

\* C4: a load that looks for the notes file (its directory path resolved)
\* and finds none, the directory being there or not, returns success with
\* the empty list.
C4_LoadWithoutFile ==
    [][ \A c \in Calls :
          ( /\ calls'[c].op = "load" /\ calls'[c] # calls[c]
            /\ calls'[c].fault # "resolve"
            /\ ~fileExists )
          => /\ calls'[c].pc = "done"
             /\ calls'[c].ret.ok
             /\ calls'[c].ret.notes = <<>>
      ]_vars

\* A load has returned the empty list where not even the directory exists.
C4_Witness ==
    \E c \in Calls :
        /\ IsLoad(c) /\ Done(c) /\ calls[c].ret.ok /\ calls[c].ret.notes = <<>>
        /\ ~dirExists /\ ~fileExists


\* The invocation has looked for the notes file (notes_file.exists() is the
\* first file access of either command).
AccessedFile(c) ==
    \/ IsSave(c) /\ ( \/ calls[c].pc = "write"
                      \/ Done(c) /\ calls[c].fault \notin {"resolve", "mkdir"} )
    \/ IsLoad(c) /\ Done(c) /\ calls[c].fault # "resolve"

\* The save is past its create-the-directory step and has not failed in it.
SavePastMkdir(c) ==
    IsSave(c) /\ ( \/ calls[c].pc \in {"read", "write"}
                   \/ Done(c) /\ calls[c].fault \notin {"resolve", "mkdir"} )

\* C5 as stated: whichever command has accessed the notes file, the backing
\* directory had been made to exist first (a directory is never removed, so
\* it exists still).
C5_Original == \A c \in Calls : AccessedFile(c) => dirExists

\* C5, amended: a save has the directory exist before its first access to the
\* notes file; a load has no such step: as long as no save is past its
\* create step the directory is as the run found it.
C5_SaveEnsuresDirLoadDoesNot ==
    /\ \A c \in Calls : SavePastMkdir(c) => dirExists
    /\ (~ \E c \in Calls : SavePastMkdir(c)) => dirExists = env.dir

\* The directory was absent; a load returned the empty list, a save created
\* the directory and went on to the file.
C5_Witness ==
    /\ ~env.dir /\ dirExists
    /\ \E c \in Calls : SavedOk(c)
    /\ \E c \in Calls : IsLoad(c) /\ Done(c) /\ calls[c].ret.ok

\* C6: no step of a load changes whether the directory exists, whether the
\* notes file exists, or what it holds.
C6_LoadHasNoSideEffects ==
    [][ \A c \in Calls :
          (calls'[c] # calls[c] /\ calls'[c].op = "load") => UNCHANGED fsvars
      ]_vars

\* Every invocation was a load and is over, one of them returned notes, and
\* the file system is as the run found it.
C6_Witness ==
    /\ \E c \in Calls : IsLoad(c) /\ Done(c) /\ calls[c].ret.ok
                         /\ Len(calls[c].ret.notes) >= 1
    /\ \A c \in Calls : IsLoad(c) /\ Done(c)
    /\ dirExists = env.dir /\ fileExists = env.exists /\ fileText = env.text

\* C7: when a save b, which the operating system does not refuse, writes
\* after a successful save a that had read the same content as b, then b
\* returns success with its own id and the file holds b's note and not a's.
C7_LostAppend ==
    [][ \A a, b \in Calls :
          ( /\ a # b
            /\ SavedOk(a)
            /\ IsSave(b) /\ calls[b].pc = "write" /\ calls'[b] # calls[b]
            /\ calls'[b].fault = "none"
            /\ calls[a].raw = calls[b].raw )
          => /\ calls'[b].pc = "done" /\ calls'[b].ret.ok
             /\ calls'[b].ret.id # calls[a].ret.id
             /\ calls'[b].ret.id \in Ids(NotesIn(fileText'))
             /\ calls[a].ret.id \notin Ids(NotesIn(fileText'))
      ]_vars

\* Two saves read the same content, both succeeded, and the file holds the
\* note of one and not of the other.
C7_Witness ==
    \E a, b \in Calls :
        /\ a # b /\ SavedOk(a) /\ SavedOk(b)
        /\ calls[a].raw = calls[b].raw
        /\ calls[b].ret.id \in Ids(Stored)
        /\ calls[a].ret.id \notin Ids(Stored)

\* C8: with an id generator that never repeats, the ids of the stored notes
\* are pairwise distinct, and no two saves return the same id.
C8_IdsDistinct ==
    /\ \A i, j \in 1..Len(Stored) : Stored[i].id = Stored[j].id => i = j
    /\ \A a, b \in Calls :
         (SavedOk(a) /\ SavedOk(b) /\ calls[a].ret.id = calls[b].ret.id) => a = b

\* Two saves have succeeded and the file holds three notes.
C8_Witness ==
    /\ Len(Stored) >= 3
    /\ \E a, b \in Calls : a # b /\ SavedOk(a) /\ SavedOk(b)

\* C9: a save whose create_dir_all or read_to_string is refused ends in that
\* very step with the matching error and the file untouched; no step of a
\* save other than its write touches the file, and an invocation that has
\* returned does nothing more.
C9_SaveFailsWithoutWriting ==
    [][ \A c \in Calls :
          /\ ( /\ calls'[c].op = "save" /\ calls'[c] # calls[c]
               /\ calls'[c].fault \in {"mkdir", "read"} )
             => /\ calls'[c].pc = "done"
                /\ ~calls'[c].ret.ok
                /\ calls'[c].ret.err =
                     (IF calls'[c].fault = "mkdir" THEN ErrCreate ELSE ErrRead)
                /\ UNCHANGED <<fileExists, fileText>>
          /\ ( /\ calls'[c].op = "save" /\ calls'[c] # calls[c]
               /\ calls[c].pc # "write" )
             => UNCHANGED <<fileExists, fileText>>
          /\ Done(c) => calls'[c] = calls[c]
      ]_vars

\* A save was refused the read and returned the error; the collection that
\* was there is there still.
C9_Witness ==
    \E c \in Calls :
        /\ IsSave(c) /\ Done(c) /\ calls[c].fault = "read"
        /\ calls[c].ret.err = ErrRead
        /\ fileExists /\ fileText = env.text /\ Len(Stored) >= 1

\* The run started with a parseable collection and no save has failed.
P0 == NotesIn(env.text)
OnlySuccessfulSaves ==
    /\ env.exists /\ Parseable(env.text)
    /\ \A c \in Calls : IsSave(c) => calls[c].fault = "none"
NumSaves == Cardinality({c \in Calls : IsSave(c)})
HasPrefixP0 ==
    /\ fileExists
    /\ Len(Stored) >= Len(P0)
    /\ \A i \in 1..Len(P0) : Stored[i] = P0[i]

\* C10 as stated: the stored collection keeps P as a prefix and its length
\* never decreases from one state to the next.
C10_Original ==
    [][ (OnlySuccessfulSaves /\ OnlySuccessfulSaves')
        => (HasPrefixP0' /\ Len(NotesIn(fileText')) >= Len(Stored)) ]_vars

\* C10, amended: the stored collection always keeps P as an unchanged prefix
\* (so it never has fewer than n notes), and once the k >= 1 saves made have
\* all finished its length is between n + 1 and n + k.
C10_PrefixKeptLengthBounded ==
    OnlySuccessfulSaves
    => /\ HasPrefixP0
       /\ (Quiet /\ NumSaves >= 1)
          => /\ Len(Stored) >= Len(P0) + 1
             /\ Len(Stored) <= Len(P0) + NumSaves

\* Three saves have succeeded on a collection of one note, and two of the
\* appends are lost.
C10_Witness ==
    /\ OnlySuccessfulSaves
    /\ Len(P0) >= 1
    /\ \A c \in Calls : SavedOk(c)
    /\ Len(Stored) = Len(P0) + 1

====
